---- MODULE Spec2Model ----
(***************************************************************************)
(* The focus-session coordinator of focus-server/server.py: the session    *)
(* registry (active_sessions, user_sessions, session_timers), the          *)
(* Socket.IO event handlers, the per-session countdown task and the        *)
(* stale-session cleanup task, on one cooperative event loop.              *)
(*                                                                         *)
(* A coroutine runs atomically from one suspension point to the next.  The *)
(* suspension points are the awaited broadcasts (sio.emit) and the sleeps; *)
(* every action below is one such atomic piece, the emit that ends it      *)
(* included.  Times are integers in milliseconds (time.time() * 1000).     *)
(* Session objects live in a heap (sessions) indexed by their id, so that  *)
(* a coroutine that holds a reference to a session keeps reading and       *)
(* writing that object after it was deleted from active_sessions.          *)
(* user_name, joined_at and created_at are written once and only copied    *)
(* into payloads; they are left out.                                       *)
(*                                                                         *)
(* A broadcast that raises is modelled where the code handles it, in the   *)
(* countdown task (fail); the handlers' emits succeed.  The except clause  *)
(* of cleanup_old_sessions has nothing to catch: the sweep deletes only    *)
(* keys it has just read.  A connection sends requests while it is open;   *)
(* its handlers that are suspended when it closes still run to their end.  *)
(*                                                                         *)
(* history is the room's view of a session: how many session_completed     *)
(* events and which elapsed value in the last time_update it was sent.  No *)
(* action reads it.                                                        *)
(***************************************************************************)
EXTENDS Integers, Sequences, FiniteSets, TLC

VARIABLES
    now,              \* the wall clock, ms
    connected,        \* transport: sid -> "new" | "open" | "closed"
    sessions,         \* heap of FocusSession objects, index = session id
    active_sessions,  \* keys of the active_sessions dict
    user_sessions,    \* socket id -> session id (NoSession: no entry)
    session_timers,   \* session id -> task id, for the keys of the dict
    tasks,            \* heap of countdown tasks, index = task id
    reaper,           \* the cleanup_old_sessions task
    inflight,         \* handlers suspended at a broadcast
    faults,           \* handlers that ended with an unhandled exception
    emitted,          \* the event emitted by the last step (<< >>: none)
    history           \* per session id, what its room has been sent so far

vars == <<now, connected, sessions, active_sessions, user_sessions,
          session_timers, tasks, reaper, inflight, faults, emitted, history>>

----------------------------------------------------------------------------
(* Bounds of the model *)

\* number of connections (socket ids) that ever exist
NumSids == 2
\* number of sessions ever created (uuid4 ids are never reused)
MaxSessions == 1
\* the same, where several rooms are open at once (SpecRooms)
MaxRooms == 2
\* clients send join_session only for rooms with fewer participants than this
RoomBound == 2
\* number of handlers suspended at a broadcast at the same time
MaxInflight == 1
\* the same, where join_session handlers overlap (SpecJoins)
MaxJoins == 2
\* length of a room code in the model (k in generate_room_code)
CodeLen == 1
\* the clock at server start, ms
StartTime == 1000
\* how far the clock runs after server start, ms
MaxElapsed == 7203000
\* the same, where rooms fill up (SpecFull): one countdown, to its completion
TickHorizon == 2000

----------------------------------------------------------------------------
(* Program constants *)

MaxParticipants == 4
TickInterval == 1000
GracePeriod == 300000
ReaperInterval == 1800000
MaxAge == 7200000

\* Python's None for started_at, and the absent entries of the two dicts
None == -1
NoSession == 0
NoSid == "none"

\* socket ids
SidNames == <<"s1", "s2", "s3", "s4">>
AllSids == {SidNames[i] : i \in 1..NumSids}
SidIndex(sid) == CHOOSE i \in 1..NumSids : SidNames[i] = sid

\* characters generate_room_code draws from (a two-letter stand-in for
\* string.ascii_uppercase + string.digits), and what clients may type
Alphabet == {"A", "7"}
ClientChars == {"A", "a", "7"}

\* session_duration values a client supplies, ms: data.get takes whatever
\* number is in the payload, a negative one included
Durations == {2000, -1000}

\* status payloads clients send in update_status
StatusInputs == {"paused"}

\* the same, where the payload is what matters (SpecStatus): data.get('status')
\* is any value the client has put there, or Python's None (written "None"
\* here) when the payload has no status
NoStatus == "None"
ClientStatuses == {"ready", "focusing", "paused", "failed", "away", NoStatus}

----------------------------------------------------------------------------
(* Helpers *)

Min(S) == CHOOSE x \in S : \A y \in S : x <= y
\* (mutant) the remaining time is not clamped at its first argument
Max2_NoClamp(a, b) == b

Max2(a, b) == IF a >= b THEN a ELSE b

RECURSIVE SeqsOfLen(_, _)
SeqsOfLen(S, n) ==
    IF n = 0 THEN {<< >>}
    ELSE {Append(q, c) : q \in SeqsOfLen(S, n - 1), c \in S}

\* every value generate_room_code can return
generate_room_code == SeqsOfLen(Alphabet, CodeLen)

\* room codes a client may send in join_session; << >>: none sent ('')
ClientCodes == SeqsOfLen(ClientChars, CodeLen) \cup {<< >>}

UpperChar(c) == IF c = "a" THEN "A" ELSE c

\* str.upper()
Upper(code) == [i \in DOMAIN code |-> UpperChar(code[i])]

SessionIds == 1..Len(sessions)
TaskIds == 1..Len(tasks)

ParticipantIds(sess) == {sess.participants[i].id : i \in DOMAIN sess.participants}

\* any(s.room_code == room_code for s in active_sessions.values())
RoomCodeInUse(code) == \E i \in active_sessions : sessions[i].room_code = code

\* the lookup loop of join_session and get_session_info: the first session,
\* in dict (insertion = id) order, with that room code; NoSession if none
FindByRoomCode(code) ==
    LET m == {i \in active_sessions : sessions[i].room_code = code}
    IN IF m = {} THEN NoSession ELSE Min(m)

sanitize_session(id, s, user_id) ==
       [id |-> id,
        room_code |-> s.room_code,
        participants |-> s.participants,
        max_participants |-> MaxParticipants,
        status |-> s.status,
        session_duration |-> s.session_duration,
        time_left_ms |-> s.time_left_ms,
        started_at |-> s.started_at,
        is_creator |-> (s.created_by = user_id)]

\* sio.emit(type, data, room=..., skip_sid=...): room is a room code, to a
\* socket id; exactly one of them is set
NoRoom == << >>
RoomEvent(type, room, skip, data) ==
    <<[type |-> type, room |-> room, to |-> NoSid, skip |-> skip, data |-> data]>>
SidEvent(type, sid, data) ==
    <<[type |-> type, room |-> NoRoom, to |-> sid, skip |-> NoSid, data |-> data]>>

\* a room that was sent neither a time_update nor a session_completed
NoHistory == [completed |-> 0, elapsed |-> None]

Handler(op, sid, pc, sid_session) ==
    [op |-> op, sid |-> sid, pc |-> pc, session_id |-> sid_session]

\* inflight is a set: a handler suspends where no equal one is suspended
CanSuspend(h) == h \notin inflight

----------------------------------------------------------------------------
Init ==
    /\ now = StartTime
    /\ connected = [s \in AllSids |-> "new"]
    /\ sessions = << >>
    /\ active_sessions = {}
    /\ user_sessions = [s \in AllSids |-> NoSession]
    /\ session_timers = << >>
    /\ tasks = << >>
    /\ reaper = [pc |-> "run", wake |-> StartTime]
    /\ inflight = {}
    /\ faults = {}
    /\ emitted = << >>
    /\ history = << >>

\* connect: the transport opens the connection under a fresh socket id (they
\* are named in the order of connection); the handler only logs
Connect(sid) ==
    /\ connected[sid] = "new"
    /\ \A i \in 1..(SidIndex(sid) - 1) : connected[SidNames[i]] # "new"
    /\ connected' = [connected EXCEPT ![sid] = "open"]
    /\ emitted' = << >>
    /\ UNCHANGED <<history, now, sessions, active_sessions, user_sessions,
                   session_timers, tasks, reaper, inflight, faults>>

\* (mutant) the code is not checked against the active sessions
AnyRoomCode == generate_room_code

\* lines 213-217: re-roll until no active session holds the code
UniqueRoomCode == {c \in generate_room_code : ~RoomCodeInUse(c)}

\* (mutant) the session is stamped as started when it is created
NewSession_Stamped(sid, code, duration) ==
    [room_code |-> code,
     created_by |-> sid,
     participants |-> <<[id |-> sid, status |-> "ready"]>>,
     status |-> "waiting",
     session_duration |-> duration,
     time_left_ms |-> duration,
     started_at |-> now,
     last_update |-> now]

NewSession(sid, code, duration) ==
    [room_code |-> code,
     created_by |-> sid,
     participants |-> <<[id |-> sid, status |-> "ready"]>>,
     status |-> "waiting",
     session_duration |-> duration,
     time_left_ms |-> duration,
     started_at |-> None,
     last_update |-> now]

\* create_session: runs without suspending up to the session_created emit
CreateSession(sid, duration) ==
    /\ connected[sid] = "open"
    /\ \E code \in UniqueRoomCode :
        LET id == Len(sessions) + 1
            session == NewSession(sid, code, duration)
        IN /\ sessions' = Append(sessions, session)
           /\ active_sessions' = active_sessions \cup {id}
           /\ user_sessions' = [user_sessions EXCEPT ![sid] = id]
           /\ emitted' = SidEvent("session_created", sid,
                                  [session_id |-> id, room_code |-> code,
                                   session |-> sanitize_session(id, session, sid)])
    /\ history' = Append(history, NoHistory)
    /\ UNCHANGED <<now, connected, session_timers, tasks, reaper, inflight, faults>>

JoinError(sid, error) ==
    /\ emitted' = SidEvent("join_error", sid, [error |-> error])
    /\ UNCHANGED <<sessions, user_sessions, inflight>>

\* (mutant) the joiner is put at the head of the participants
JoinSuccess_First(sid, id) ==
    LET participant == [id |-> sid, status |-> "ready"]
        session == [sessions[id] EXCEPT
                        !.participants = <<participant>> \o @,
                        !.last_update = now]
        h == Handler("join_session", sid, "session_joined", id)
    IN /\ CanSuspend(h)
       /\ sessions' = [sessions EXCEPT ![id] = session]
       /\ user_sessions' = [user_sessions EXCEPT ![sid] = id]
       /\ emitted' = RoomEvent("participant_joined", session.room_code, NoSid,
                               [participant |-> participant,
                                session |-> sanitize_session(id, session, "")])
       /\ inflight' = inflight \cup {h}

JoinSuccess(sid, id) ==
    LET participant == [id |-> sid, status |-> "ready"]
        session == [sessions[id] EXCEPT
                        !.participants = Append(@, participant),
                        !.last_update = now]
        h == Handler("join_session", sid, "session_joined", id)
    IN /\ CanSuspend(h)
       /\ sessions' = [sessions EXCEPT ![id] = session]
       /\ user_sessions' = [user_sessions EXCEPT ![sid] = id]
       /\ emitted' = RoomEvent("participant_joined", session.room_code, NoSid,
                               [participant |-> participant,
                                session |-> sanitize_session(id, session, "")])
       /\ inflight' = inflight \cup {h}

\* (mutant) the room's capacity is not checked
JoinSession_NoFullCheck(sid, client_code) ==
    /\ connected[sid] = "open"
    /\ LET room_code == Upper(client_code)
           id == FindByRoomCode(room_code)
       IN IF id = NoSession
          THEN JoinError(sid, "Session not found")
          ELSE IF sessions[id].status # "waiting"
          THEN JoinError(sid, "Session already in progress")
          ELSE JoinSuccess(sid, id)
    /\ UNCHANGED <<history, now, connected, active_sessions, session_timers, tasks,
                   reaper, faults>>

\* (mutant) the status of the session is not checked
JoinSession_NoStatusCheck(sid, client_code) ==
    /\ connected[sid] = "open"
    /\ LET room_code == Upper(client_code)
           id == FindByRoomCode(room_code)
       IN IF id = NoSession
          THEN JoinError(sid, "Session not found")
          ELSE IF Len(sessions[id].participants) >= MaxParticipants
          THEN JoinError(sid, "Session is full")
          ELSE JoinSuccess(sid, id)
    /\ UNCHANGED <<history, now, connected, active_sessions, session_timers, tasks,
                   reaper, faults>>

\* join_session up to its first emit
JoinSession(sid, client_code) ==
    /\ connected[sid] = "open"
    /\ LET room_code == Upper(client_code)
           id == FindByRoomCode(room_code)
       IN IF id = NoSession
          THEN JoinError(sid, "Session not found")
          ELSE IF Len(sessions[id].participants) >= MaxParticipants
          THEN JoinError(sid, "Session is full")
          ELSE IF sessions[id].status # "waiting"
          THEN JoinError(sid, "Session already in progress")
          ELSE JoinSuccess(sid, id)
    /\ UNCHANGED <<history, now, connected, active_sessions, session_timers, tasks,
                   reaper, faults>>

\* join_session resumed after participant_joined: session_joined to the joiner
JoinResume(h) ==
    /\ h \in inflight
    /\ h.op = "join_session"
    /\ emitted' = SidEvent("session_joined", h.sid,
                           [session_id |-> h.session_id,
                            room_code |-> sessions[h.session_id].room_code,
                            session |-> sanitize_session(h.session_id,
                                             sessions[h.session_id], h.sid)])
    /\ inflight' = inflight \ {h}
    /\ UNCHANGED <<history, now, connected, sessions, active_sessions, user_sessions,
                   session_timers, tasks, reaper, faults>>

StartError(sid, message) ==
    /\ emitted' = SidEvent("error", sid, [message |-> message])
    /\ UNCHANGED <<sessions, inflight>>

\* (mutant) only the participants that are ready start focusing
AllFocusing_ReadyOnly(participants) ==
    [i \in DOMAIN participants |->
        IF participants[i].status = "ready"
        THEN [participants[i] EXCEPT !.status = "focusing"]
        ELSE participants[i]]

AllFocusing(participants) ==
    [i \in DOMAIN participants |-> [participants[i] EXCEPT !.status = "focusing"]]

StartSuccess(sid, id) ==
    LET session == [sessions[id] EXCEPT
                        !.status = "active",
                        !.started_at = now,
                        !.last_update = now,
                        !.participants = AllFocusing(@)]
        h == Handler("start_session", sid, "create_task", id)
    IN /\ CanSuspend(h)
       /\ sessions' = [sessions EXCEPT ![id] = session]
       /\ emitted' = RoomEvent("session_started", session.room_code, NoSid,
                               [session |-> sanitize_session(id, session, "")])
       /\ inflight' = inflight \cup {h}

\* (mutant) the status of the session is not checked
StartSession_NoStateCheck(sid) ==
    /\ connected[sid] = "open"
    /\ LET id == user_sessions[sid]
       IN IF id = NoSession
          THEN StartError(sid, "No active session")
          ELSE IF id \notin active_sessions \/ sessions[id].created_by # sid
          THEN StartError(sid, "Only session creator can start the session")
          ELSE StartSuccess(sid, id)
    /\ UNCHANGED <<history, now, connected, active_sessions, user_sessions,
                   session_timers, tasks, reaper, faults>>

\* (mutant) any participant of the session may start it
StartSession_NoCreatorCheck(sid) ==
    /\ connected[sid] = "open"
    /\ LET id == user_sessions[sid]
       IN IF id = NoSession
          THEN StartError(sid, "No active session")
          ELSE IF id \notin active_sessions
          THEN StartError(sid, "Only session creator can start the session")
          ELSE IF sessions[id].status # "waiting"
          THEN StartError(sid, "Session cannot be started")
          ELSE StartSuccess(sid, id)
    /\ UNCHANGED <<history, now, connected, active_sessions, user_sessions,
                   session_timers, tasks, reaper, faults>>

\* start_session up to the session_started emit
StartSession(sid) ==
    /\ connected[sid] = "open"
    /\ LET id == user_sessions[sid]
       IN IF id = NoSession
          THEN StartError(sid, "No active session")
          ELSE IF id \notin active_sessions \/ sessions[id].created_by # sid
          THEN StartError(sid, "Only session creator can start the session")
          ELSE IF sessions[id].status # "waiting"
          THEN StartError(sid, "Session cannot be started")
          ELSE StartSuccess(sid, id)
    /\ UNCHANGED <<history, now, connected, active_sessions, user_sessions,
                   session_timers, tasks, reaper, faults>>

SetTimer(timers, id, t) ==
    [k \in (DOMAIN timers) \cup {id} |-> IF k = id THEN t ELSE timers[k]]

DelTimer(timers, ids) == [k \in (DOMAIN timers) \ ids |-> timers[k]]

\* start_session resumed after session_started: create and record the task
StartResume(h) ==
    /\ h \in inflight
    /\ h.op = "start_session"
    /\ tasks' = Append(tasks, [session_id |-> h.session_id, pc |-> "init", wake |-> 0])
    /\ session_timers' = SetTimer(session_timers, h.session_id, Len(tasks) + 1)
    /\ inflight' = inflight \ {h}
    /\ emitted' = << >>
    /\ UNCHANGED <<history, now, connected, sessions, active_sessions, user_sessions,
                   reaper, faults>>

\* index of the first participant with this id (0: none)
FirstIndex(participants, sid) ==
    LET m == {i \in DOMAIN participants : participants[i].id = sid}
    IN IF m = {} THEN 0 ELSE Min(m)

\* (mutant) the broadcast goes to the originator as well
UpdateStatus_NoSkip(sid, status) ==
    /\ connected[sid] = "open"
    /\ LET id == user_sessions[sid]
           i == IF id = NoSession \/ id \notin active_sessions THEN 0
                ELSE FirstIndex(sessions[id].participants, sid)
       IN IF i = 0
          THEN /\ emitted' = << >>
               /\ UNCHANGED sessions
          ELSE /\ sessions' = [sessions EXCEPT
                                  ![id].participants[i].status = status,
                                  ![id].last_update = now]
               /\ emitted' = RoomEvent("participant_status_updated",
                                       sessions[id].room_code, NoSid,
                                       [participant_id |-> sid, status |-> status])
    /\ UNCHANGED <<history, now, connected, active_sessions, user_sessions,
                   session_timers, tasks, reaper, inflight, faults>>

\* update_status: the whole handler
UpdateStatus(sid, status) ==
    /\ connected[sid] = "open"
    /\ LET id == user_sessions[sid]
           i == IF id = NoSession \/ id \notin active_sessions THEN 0
                ELSE FirstIndex(sessions[id].participants, sid)
       IN IF i = 0
          THEN /\ emitted' = << >>
               /\ UNCHANGED sessions
          ELSE /\ sessions' = [sessions EXCEPT
                                  ![id].participants[i].status = status,
                                  ![id].last_update = now]
               /\ emitted' = RoomEvent("participant_status_updated",
                                       sessions[id].room_code, sid,
                                       [participant_id |-> sid, status |-> status])
    /\ UNCHANGED <<history, now, connected, active_sessions, user_sessions,
                   session_timers, tasks, reaper, inflight, faults>>


Terminated == {"done", "cancelled", "failed"}

\* Task.cancel(): CancelledError is thrown into the task where it is suspended
\* (or before its first step); a finished task is left as it is
CancelTask(ts, t) ==
    IF ts[t].pc \in Terminated THEN ts ELSE [ts EXCEPT ![t].pc = "cancelled"]

RemoveParticipant(participants, sid) ==
    SelectSeq(participants, LAMBDA p : p.id # sid)

\* (mutant) the timer of the emptied session is neither cancelled nor dropped
DisconnectLast_NoCancel(sid, id) ==
    /\ active_sessions' = active_sessions \ {id}
    /\ user_sessions' = [user_sessions EXCEPT ![sid] = NoSession]
    /\ emitted' = << >>
    /\ UNCHANGED <<inflight, tasks, session_timers>>

\* (mutant) the emptied session stays in the registry
DisconnectLast_KeepSession(sid, id) ==
    /\ tasks' = IF id \in DOMAIN session_timers
                THEN CancelTask(tasks, session_timers[id]) ELSE tasks
    /\ session_timers' = DelTimer(session_timers, {id})
    /\ user_sessions' = [user_sessions EXCEPT ![sid] = NoSession]
    /\ emitted' = << >>
    /\ UNCHANGED <<inflight, active_sessions>>

\* lines 184-190: the session is empty: cancel its timer, delete the session
DisconnectLast(sid, id) ==
    /\ tasks' = IF id \in DOMAIN session_timers
                THEN CancelTask(tasks, session_timers[id]) ELSE tasks
    /\ session_timers' = DelTimer(session_timers, {id})
    /\ active_sessions' = active_sessions \ {id}
    /\ user_sessions' = [user_sessions EXCEPT ![sid] = NoSession]
    /\ emitted' = << >>
    /\ UNCHANGED inflight

\* lines 191-196: tell the room, suspended with the creator not yet reassigned
DisconnectNotify(sid, id, session) ==
    LET h == Handler("disconnect", sid, "reassign", id)
    IN /\ CanSuspend(h)
       /\ emitted' = RoomEvent("participant_left", session.room_code, NoSid,
                               [participant_id |-> sid,
                                session |-> sanitize_session(id, session, "")])
       /\ inflight' = inflight \cup {h}
       /\ UNCHANGED <<active_sessions, user_sessions, session_timers, tasks>>

\* disconnect up to its first emit (or to its end)
Disconnect(sid) ==
    /\ connected[sid] = "open"
    /\ connected' = [connected EXCEPT ![sid] = "closed"]
    /\ LET id == user_sessions[sid]
       IN IF id = NoSession
          THEN /\ emitted' = << >>
               /\ UNCHANGED <<sessions, active_sessions, user_sessions,
                              session_timers, tasks, inflight>>
          ELSE IF id \notin active_sessions
          THEN /\ user_sessions' = [user_sessions EXCEPT ![sid] = NoSession]
               /\ emitted' = << >>
               /\ UNCHANGED <<sessions, active_sessions, session_timers,
                              tasks, inflight>>
          ELSE LET session == [sessions[id] EXCEPT
                                  !.participants = RemoveParticipant(@, sid),
                                  !.last_update = now]
               IN /\ sessions' = [sessions EXCEPT ![id] = session]
                  /\ IF session.participants = << >>
                     THEN DisconnectLast(sid, id)
                     ELSE DisconnectNotify(sid, id, session)
    /\ UNCHANGED <<history, now, reaper, faults>>

\* disconnect resumed after participant_left: lines 198-205
DisconnectResume(h) ==
    /\ h \in inflight
    /\ h.op = "disconnect"
    /\ h.pc = "reassign"
    /\ LET session == sessions[h.session_id]
       IN IF session.created_by # h.sid
          THEN /\ user_sessions' = [user_sessions EXCEPT ![h.sid] = NoSession]
               /\ inflight' = inflight \ {h}
               /\ emitted' = << >>
               /\ UNCHANGED <<sessions, faults>>
          ELSE IF session.participants = << >>
          THEN \* session.participants[0] raises IndexError
               /\ faults' = faults \cup {h}
               /\ inflight' = inflight \ {h}
               /\ emitted' = << >>
               /\ UNCHANGED <<sessions, user_sessions>>
          ELSE /\ sessions' = [sessions EXCEPT ![h.session_id].created_by =
                                                   session.participants[1].id]
               /\ emitted' = RoomEvent("creator_changed", session.room_code, NoSid,
                                 [new_creator_id |-> session.participants[1].id])
               /\ inflight' = (inflight \ {h}) \cup {[h EXCEPT !.pc = "finish"]}
               /\ UNCHANGED <<user_sessions, faults>>
    /\ UNCHANGED <<history, now, connected, active_sessions, session_timers, tasks, reaper>>

\* disconnect resumed after creator_changed: line 205
DisconnectFinish(h) ==
    /\ h \in inflight
    /\ h.op = "disconnect"
    /\ h.pc = "finish"
    /\ user_sessions' = [user_sessions EXCEPT ![h.sid] = NoSession]
    /\ inflight' = inflight \ {h}
    /\ emitted' = << >>
    /\ UNCHANGED <<history, now, connected, sessions, active_sessions, session_timers,
                   tasks, reaper, faults>>

----------------------------------------------------------------------------
(* session_countdown *)

\* (mutant) started_at is taken as unset
Elapsed_Unset(session) == 0

\* elapsed = now - session.started_at if session.started_at else 0
Elapsed(session) ==
    IF session.started_at # None /\ session.started_at # 0
    THEN now - session.started_at ELSE 0

\* lines 93-108: one loop iteration up to the time_update emit; fail: the
\* emit raises, which ends the task in its except clause
CountdownTick(t, fail) ==
    /\ t \in TaskIds
    /\ \/ tasks[t].pc = "init"
       \/ tasks[t].pc = "sleep_tick" /\ now >= tasks[t].wake
    /\ LET id == tasks[t].session_id
       IN IF id \notin active_sessions \/ sessions[id].status # "active"
          THEN /\ ~fail
               /\ tasks' = [tasks EXCEPT ![t].pc = "done"]
               /\ emitted' = << >>
               /\ UNCHANGED <<sessions, history>>
          ELSE LET elapsed == Elapsed(sessions[id])
                   left == Max2(0, sessions[id].session_duration - elapsed)
               IN /\ sessions' = [sessions EXCEPT ![id].time_left_ms = left,
                                                  ![id].last_update = now]
                  /\ IF fail
                     THEN /\ tasks' = [tasks EXCEPT ![t].pc = "failed"]
                          /\ emitted' = << >>
                          /\ UNCHANGED history
                     ELSE /\ tasks' = [tasks EXCEPT ![t].pc = "emit_update"]
                          /\ history' = [history EXCEPT ![id].elapsed = elapsed]
                          /\ emitted' = RoomEvent("time_update",
                                            sessions[id].room_code, NoSid,
                                            [time_left_ms |-> left,
                                             elapsed |-> elapsed])
    /\ UNCHANGED <<now, connected, active_sessions, user_sessions,
                   session_timers, reaper, inflight, faults>>

\* (mutant) every participant is marked completed
CompleteFocusing_All(participants) ==
    [i \in DOMAIN participants |-> [participants[i] EXCEPT !.status = "completed"]]

CompleteFocusing(participants) ==
    [i \in DOMAIN participants |->
        IF participants[i].status = "focusing"
        THEN [participants[i] EXCEPT !.status = "completed"]
        ELSE participants[i]]

\* (mutant) a session_completed broadcast that raises ends every countdown
CountdownCheck_CrashAll(t, fail) ==
    /\ t \in TaskIds
    /\ tasks[t].pc = "emit_update"
    /\ LET id == tasks[t].session_id
       IN IF sessions[id].time_left_ms <= 0
          THEN LET session == [sessions[id] EXCEPT
                                  !.status = "completed",
                                  !.participants = CompleteFocusing(@)]
               IN /\ sessions' = [sessions EXCEPT ![id] = session]
                  /\ IF fail
                     THEN /\ tasks' = [u \in DOMAIN tasks |->
                                          [tasks[u] EXCEPT !.pc = "failed"]]
                          /\ emitted' = << >>
                          /\ UNCHANGED history
                     ELSE /\ tasks' = [tasks EXCEPT ![t].pc = "emit_completed"]
                          /\ history' = [history EXCEPT ![id].completed = @ + 1]
                          /\ emitted' = RoomEvent("session_completed",
                                            session.room_code, NoSid,
                                            [session |-> sanitize_session(id, session, "")])
          ELSE /\ ~fail
               /\ tasks' = [tasks EXCEPT ![t].pc = "sleep_tick",
                                         ![t].wake = now + TickInterval]
               /\ emitted' = << >>
               /\ UNCHANGED <<sessions, history>>
    /\ UNCHANGED <<now, connected, active_sessions, user_sessions,
                   session_timers, reaper, inflight, faults>>

\* lines 110-129, resumed after time_update: complete the session and emit
\* session_completed, or sleep one tick
CountdownCheck(t, fail) ==
    /\ t \in TaskIds
    /\ tasks[t].pc = "emit_update"
    /\ LET id == tasks[t].session_id
       IN IF sessions[id].time_left_ms <= 0
          THEN LET session == [sessions[id] EXCEPT
                                  !.status = "completed",
                                  !.participants = CompleteFocusing(@)]
               IN /\ sessions' = [sessions EXCEPT ![id] = session]
                  /\ IF fail
                     THEN /\ tasks' = [tasks EXCEPT ![t].pc = "failed"]
                          /\ emitted' = << >>
                          /\ UNCHANGED history
                     ELSE /\ tasks' = [tasks EXCEPT ![t].pc = "emit_completed"]
                          /\ history' = [history EXCEPT ![id].completed = @ + 1]
                          /\ emitted' = RoomEvent("session_completed",
                                            session.room_code, NoSid,
                                            [session |-> sanitize_session(id, session, "")])
          ELSE /\ ~fail
               /\ tasks' = [tasks EXCEPT ![t].pc = "sleep_tick",
                                         ![t].wake = now + TickInterval]
               /\ emitted' = << >>
               /\ UNCHANGED <<sessions, history>>
    /\ UNCHANGED <<now, connected, active_sessions, user_sessions,
                   session_timers, reaper, inflight, faults>>

\* (mutant) the countdown does not wait before it removes the session
CountdownGrace_NoSleep(t) ==
    /\ t \in TaskIds
    /\ tasks[t].pc = "emit_completed"
    /\ tasks' = [tasks EXCEPT ![t].pc = "sleep_grace", ![t].wake = now]
    /\ emitted' = << >>
    /\ UNCHANGED <<history, now, connected, sessions, active_sessions, user_sessions,
                   session_timers, reaper, inflight, faults>>

\* line 122, resumed after session_completed: sleep the grace period
CountdownGrace(t) ==
    /\ t \in TaskIds
    /\ tasks[t].pc = "emit_completed"
    /\ tasks' = [tasks EXCEPT ![t].pc = "sleep_grace",
                              ![t].wake = now + GracePeriod]
    /\ emitted' = << >>
    /\ UNCHANGED <<history, now, connected, sessions, active_sessions, user_sessions,
                   session_timers, reaper, inflight, faults>>

\* lines 123-127, after the grace period: delete the session
CountdownCleanup(t) ==
    /\ t \in TaskIds
    /\ tasks[t].pc = "sleep_grace"
    /\ now >= tasks[t].wake
    /\ active_sessions' = active_sessions \ {tasks[t].session_id}
    /\ tasks' = [tasks EXCEPT ![t].pc = "done"]
    /\ emitted' = << >>
    /\ UNCHANGED <<history, now, connected, sessions, user_sessions, session_timers,
                   reaper, inflight, faults>>

----------------------------------------------------------------------------
(* cleanup_old_sessions *)

\* (mutant) every session is collected, whatever its age
sessions_to_remove_NoAge == active_sessions

\* (mutant) only sessions that were never started are collected
sessions_to_remove_WaitingOnly ==
    {id \in active_sessions : /\ sessions[id].status = "waiting"
                              /\ now - sessions[id].last_update > MaxAge}

\* lines 382-385
sessions_to_remove == {id \in active_sessions : now - sessions[id].last_update > MaxAge}

RECURSIVE CancelAll(_, _)
CancelAll(ts, S) ==
    IF S = {} THEN ts
    ELSE LET t == Min(S) IN CancelAll(CancelTask(ts, t), S \ {t})

\* one sweep (lines 379-392) and the start of the 30-minute sleep
ReaperSweep ==
    /\ \/ reaper.pc = "run"
       \/ reaper.pc = "sleep" /\ now >= reaper.wake
    /\ LET gone == sessions_to_remove
           timed == gone \cap DOMAIN session_timers
       IN /\ tasks' = CancelAll(tasks, {session_timers[id] : id \in timed})
          /\ session_timers' = DelTimer(session_timers, timed)
          /\ active_sessions' = active_sessions \ gone
    /\ reaper' = [pc |-> "sleep", wake |-> now + ReaperInterval]
    /\ emitted' = << >>
    /\ UNCHANGED <<history, now, connected, sessions, user_sessions, inflight, faults>>

----------------------------------------------------------------------------
(* The clock *)

\* the instants at which a sleeping countdown task is due
Deadlines ==
    {tasks[t].wake : t \in {u \in TaskIds : tasks[u].pc \in {"sleep_tick", "sleep_grace"}}}

\* the first instants at which a session counts as old in cleanup_old_sessions
StaleInstants == {sessions[id].last_update + MaxAge + 1 : id \in active_sessions}

\* Time passes, up to an instant at which something new can happen: a
\* countdown sleep is over or a session has become old.  asyncio.sleep(d)
\* returns after at least d, so a task that is due (the countdown, the cleanup
\* task) may run late: it runs at one of these instants at or after its wake.
Advance(horizon) ==
    /\ \E t \in Deadlines \cup StaleInstants :
        /\ t > now
        /\ t <= StartTime + horizon
        /\ now' = t
    /\ emitted' = << >>
    /\ UNCHANGED <<history, connected, sessions, active_sessions, user_sessions,
                   session_timers, tasks, reaper, inflight, faults>>


----------------------------------------------------------------------------
(* The environment: which requests the clients send *)

\* a client sends join_session for a room with fewer than bound participants,
\* or with a code that names no room
JoinRequest(client_code, bound) ==
    LET id == FindByRoomCode(Upper(client_code))
    IN id # NoSession => Len(sessions[id].participants) < bound

\* requests arrive so that at most bound handlers are suspended at a time
Overlap(bound) == Cardinality(inflight') <= bound

Next ==
    \/ \E sid \in AllSids : Connect(sid)
    \/ \E sid \in AllSids, d \in Durations :
          Len(sessions) < MaxSessions /\ CreateSession(sid, d)
    \/ \E sid \in AllSids, c \in ClientCodes :
          JoinRequest(c, RoomBound) /\ JoinSession(sid, c) /\ Overlap(MaxInflight)
    \/ \E h \in inflight : JoinResume(h)
    \/ \E sid \in AllSids : StartSession(sid) /\ Overlap(MaxInflight)
    \/ \E h \in inflight : StartResume(h)
    \/ \E sid \in AllSids, st \in StatusInputs : UpdateStatus(sid, st)
    \/ \E sid \in AllSids : Disconnect(sid) /\ Overlap(MaxInflight)
    \/ \E h \in inflight : DisconnectResume(h)
    \/ \E h \in inflight : DisconnectFinish(h)
    \/ \E t \in TaskIds, fail \in BOOLEAN : CountdownTick(t, fail)
    \/ \E t \in TaskIds, fail \in BOOLEAN : CountdownCheck(t, fail)
    \/ \E t \in TaskIds : CountdownGrace(t)
    \/ \E t \in TaskIds : CountdownCleanup(t)
    \/ ReaperSweep
    \/ Advance(MaxElapsed)

Spec == Init /\ [][Next]_vars

\* Several rooms at once, at one instant of the clock: the handlers, the
\* first steps of the countdowns and the first sweep
NextRooms ==
    \/ \E sid \in AllSids : Connect(sid)
    \/ \E sid \in AllSids, d \in Durations :
          Len(sessions) < MaxRooms /\ CreateSession(sid, d)
    \/ \E sid \in AllSids, c \in ClientCodes :
          JoinRequest(c, RoomBound) /\ JoinSession(sid, c) /\ Overlap(MaxInflight)
    \/ \E h \in inflight : JoinResume(h)
    \/ \E sid \in AllSids : StartSession(sid) /\ Overlap(MaxInflight)
    \/ \E h \in inflight : StartResume(h)
    \/ \E sid \in AllSids : Disconnect(sid) /\ Overlap(MaxInflight)
    \/ \E h \in inflight : DisconnectResume(h)
    \/ \E h \in inflight : DisconnectFinish(h)
    \/ \E t \in TaskIds, fail \in BOOLEAN : CountdownTick(t, fail)
    \/ \E t \in TaskIds, fail \in BOOLEAN : CountdownCheck(t, fail)
    \/ ReaperSweep

SpecRooms == Init /\ [][NextRooms]_vars

\* One room that clients keep joining until it is full and beyond, up to the
\* completion of its countdown
NextFull ==
    \/ \E sid \in AllSids : Connect(sid)
    \/ \E sid \in AllSids, d \in Durations :
          Len(sessions) < MaxSessions /\ CreateSession(sid, d)
    \/ \E sid \in AllSids, c \in ClientCodes :
          JoinSession(sid, c) /\ Overlap(MaxInflight)
    \/ \E h \in inflight : JoinResume(h)
    \/ \E sid \in AllSids : StartSession(sid) /\ Overlap(MaxInflight)
    \/ \E h \in inflight : StartResume(h)
    \/ \E sid \in AllSids : Disconnect(sid) /\ Overlap(MaxInflight)
    \/ \E h \in inflight : DisconnectResume(h)
    \/ \E h \in inflight : DisconnectFinish(h)
    \/ \E t \in TaskIds, fail \in BOOLEAN : CountdownTick(t, fail)
    \/ \E t \in TaskIds, fail \in BOOLEAN : CountdownCheck(t, fail)
    \/ \E t \in TaskIds : CountdownGrace(t)
    \/ ReaperSweep
    \/ Advance(TickHorizon)

SpecFull == Init /\ [][NextFull]_vars

\* Overlapping join_session handlers on rooms that fill up, at one instant of
\* the clock, before any session is started
NextJoins ==
    \/ \E sid \in AllSids : Connect(sid)
    \/ \E sid \in AllSids, d \in Durations :
          Len(sessions) < MaxSessions /\ CreateSession(sid, d)
    \/ \E sid \in AllSids, c \in ClientCodes :
          JoinSession(sid, c) /\ Overlap(MaxJoins)
    \/ \E h \in inflight : JoinResume(h)
    \/ \E sid \in AllSids : Disconnect(sid) /\ Overlap(MaxJoins)
    \/ \E h \in inflight : DisconnectResume(h)
    \/ \E h \in inflight : DisconnectFinish(h)

SpecJoins == Init /\ [][NextJoins]_vars

\* update_status with every kind of payload, while the clock runs through one
\* grace period
NextStatus ==
    \/ \E sid \in AllSids : Connect(sid)
    \/ \E sid \in AllSids, d \in Durations :
          Len(sessions) < MaxSessions /\ CreateSession(sid, d)
    \/ \E sid \in AllSids, c \in ClientCodes :
          JoinRequest(c, RoomBound) /\ JoinSession(sid, c) /\ Overlap(MaxInflight)
    \/ \E h \in inflight : JoinResume(h)
    \/ \E sid \in AllSids : StartSession(sid) /\ Overlap(MaxInflight)
    \/ \E h \in inflight : StartResume(h)
    \/ \E sid \in AllSids, st \in ClientStatuses : UpdateStatus(sid, st)
    \/ \E sid \in AllSids : Disconnect(sid) /\ Overlap(MaxInflight)
    \/ \E h \in inflight : DisconnectResume(h)
    \/ \E h \in inflight : DisconnectFinish(h)
    \/ \E t \in TaskIds, fail \in BOOLEAN : CountdownTick(t, fail)
    \/ \E t \in TaskIds, fail \in BOOLEAN : CountdownCheck(t, fail)
    \/ \E t \in TaskIds : CountdownGrace(t)
    \/ \E t \in TaskIds : CountdownCleanup(t)
    \/ Advance(GracePeriod)

SpecStatus == Init /\ [][NextStatus]_vars

\* The scenario create -> join by a second participant -> start, with no
\* other request, no broadcast that fails, and the clock running to the end
\* of the grace period
ScenarioCreate == sessions = << >>

ScenarioJoin(sid, client_code) ==
    LET id == FindByRoomCode(Upper(client_code))
    IN /\ id # NoSession
       /\ user_sessions[sid] = NoSession
       /\ Len(sessions[id].participants) = 1

ScenarioStart(sid) ==
    /\ user_sessions[sid] \in active_sessions
    /\ sessions[user_sessions[sid]].created_by = sid
    /\ sessions[user_sessions[sid]].status = "waiting"
    /\ Len(sessions[user_sessions[sid]].participants) = 2

NextScenario ==
    \/ \E sid \in AllSids : Connect(sid)
    \/ \E sid \in AllSids, d \in Durations :
          ScenarioCreate /\ CreateSession(sid, d)
    \/ \E sid \in AllSids, c \in ClientCodes :
          ScenarioJoin(sid, c) /\ JoinSession(sid, c) /\ Overlap(MaxInflight)
    \/ \E h \in inflight : JoinResume(h)
    \/ \E sid \in AllSids :
          ScenarioStart(sid) /\ StartSession(sid) /\ Overlap(MaxInflight)
    \/ \E h \in inflight : StartResume(h)
    \/ \E t \in TaskIds : CountdownTick(t, FALSE)
    \/ \E t \in TaskIds : CountdownCheck(t, FALSE)
    \/ \E t \in TaskIds : CountdownGrace(t)
    \/ \E t \in TaskIds : CountdownCleanup(t)
    \/ ReaperSweep
    \/ Advance(GracePeriod + TickHorizon)

\* the event loop runs every coroutine that is ready, and the clock advances
SpecScenario == Init /\ [][NextScenario]_vars /\ WF_vars(NextScenario)

\* The clock without an end.  The program reads a timestamp only in a
\* difference with time.time() (lines 100, 384) or in a comparison with it
\* (the end of a sleep), so moving the origin of time changes nothing it
\* does.  Rebase moves the origin forward by one ReaperInterval once the
\* clock is far enough from StartTime; a timestamp that would fall before
\* StartTime is kept at StartTime, where it is still more than MaxAge old:
\* the session is still old at line 384, the sleep is still over, and
\* time_left_ms is still 0 for every duration of Durations.
RebaseDue == now >= StartTime + MaxAge + 1 + ReaperInterval

Shift(t) == Max2(StartTime, t - ReaperInterval)

Rebase ==
    /\ RebaseDue
    /\ now' = now - ReaperInterval
    /\ sessions' = [id \in DOMAIN sessions |->
                      [sessions[id] EXCEPT
                          !.started_at = IF @ = None THEN None ELSE Shift(@),
                          !.last_update = Shift(@)]]
    /\ tasks' = [t \in DOMAIN tasks |->
                    [tasks[t] EXCEPT !.wake = IF @ = 0 THEN 0 ELSE Shift(@)]]
    /\ reaper' = [reaper EXCEPT !.wake = Shift(@)]
    /\ emitted' = << >>
    /\ UNCHANGED <<history, connected, active_sessions, user_sessions,
                   session_timers, inflight, faults>>

\* a coroutine is ready to run: a handler or a countdown task whose emit
\* is over, a countdown task or the cleanup task at the end of its sleep
Due ==
    \/ inflight # {}
    \/ \E t \in TaskIds : tasks[t].pc \in {"init", "emit_update", "emit_completed"}
    \/ \E t \in Deadlines : t <= now
    \/ reaper.pc = "run"
    \/ reaper.wake <= now

\* lines 122, 129, 394: when no coroutine is ready, time passes to the end
\* of the first sleep that ends
AdvanceToNext ==
    /\ ~Due
    /\ now' = Min(Deadlines \cup {reaper.wake})
    /\ emitted' = << >>
    /\ UNCHANGED <<history, connected, sessions, active_sessions, user_sessions,
                   session_timers, tasks, reaper, inflight, faults>>

\* the clock advances
Clock ==
    \/ ~RebaseDue /\ AdvanceToNext
    \/ Rebase

\* the handlers that are suspended in an emit resume
Resumes ==
    \/ \E h \in inflight : JoinResume(h)
    \/ \E h \in inflight : StartResume(h)
    \/ \E h \in inflight : DisconnectResume(h)
    \/ \E h \in inflight : DisconnectFinish(h)

\* the steps of the countdown tasks; an emit may raise
Countdown ==
    \/ \E t \in TaskIds, fail \in BOOLEAN : CountdownTick(t, fail)
    \/ \E t \in TaskIds, fail \in BOOLEAN : CountdownCheck(t, fail)
    \/ \E t \in TaskIds : CountdownGrace(t)
    \/ \E t \in TaskIds : CountdownCleanup(t)

\* the clients set the room up as soon as the server is up
Early == now = StartTime

\* One room, set up early, whose participants may send update_status or
\* leave at any time, for ever
NextLive ==
    \/ \E sid \in AllSids : Early /\ Connect(sid)
    \/ \E sid \in AllSids, d \in Durations :
          Early /\ Len(sessions) < MaxSessions /\ CreateSession(sid, d)
    \/ \E sid \in AllSids, c \in ClientCodes :
          /\ Early /\ JoinRequest(c, RoomBound)
          /\ JoinSession(sid, c) /\ Overlap(MaxInflight)
    \/ \E sid \in AllSids : Early /\ StartSession(sid) /\ Overlap(MaxInflight)
    \/ \E sid \in AllSids, st \in StatusInputs : UpdateStatus(sid, st)
    \/ \E sid \in AllSids : Disconnect(sid) /\ Overlap(MaxInflight)
    \/ Resumes
    \/ Countdown
    \/ ReaperSweep
    \/ Clock

\* the event loop runs every coroutine that is ready and the clock keeps
\* advancing; nothing obliges a client to send a request
SpecLive ==
    /\ Init /\ [][NextLive]_vars
    /\ WF_vars(Resumes) /\ WF_vars(Countdown) /\ WF_vars(ReaperSweep)
    /\ WF_vars(Clock)
----------------------------------------------------------------------------
(* Properties *)

Registry == <<sessions, active_sessions, user_sessions, session_timers, tasks>>

\* C1: no two sessions present in active_sessions have the same room_code
C1_UniqueRoomCodes ==
    \A i \in active_sessions : \A j \in active_sessions :
        i # j => sessions[i].room_code # sessions[j].room_code

C1_TwoRooms == Cardinality(active_sessions) = 2

StatusStep(old, new) ==
    \/ new = old
    \/ old = "waiting" /\ new = "active"
    \/ old = "active" /\ new = "completed"

\* C2: in every step the status of every session stays as it is or moves from
\* waiting to active or from active to completed
C2_StatusForward ==
    [][\A id \in SessionIds : StatusStep(sessions[id].status, sessions'[id].status)]_vars

C2_Completed == \E id \in SessionIds : sessions[id].status = "completed"

\* the caller is mapped to a session of the registry, is its creator, and the
\* session is waiting
StartAllowed(sid) ==
    /\ user_sessions[sid] # NoSession
    /\ user_sessions[sid] \in active_sessions
    /\ sessions[user_sessions[sid]].created_by = sid
    /\ sessions[user_sessions[sid]].status = "waiting"

\* C3: a start_session by the creator of a waiting session makes the session
\* active, sets started_at to the current time, leaves time_left_ms equal to
\* session_duration, and makes every participant of the session focusing
C3_StartSucceeds ==
    [][\A sid \in AllSids :
        (StartAllowed(sid) /\ StartSession(sid)) =>
            LET id == user_sessions[sid]
                old == sessions[id]
                new == sessions'[id]
            IN /\ new.status = "active"
               /\ new.started_at = now
               /\ new.time_left_ms = new.session_duration
               /\ Len(new.participants) = Len(old.participants)
               /\ \A i \in DOMAIN old.participants :
                    /\ new.participants[i].id = old.participants[i].id
                    /\ new.participants[i].status = "focusing"]_vars

C3_Started ==
    /\ emitted # << >>
    /\ emitted[1].type = "session_started"
    /\ Len(emitted[1].data.session.participants) >= 2
    /\ \A i \in DOMAIN emitted[1].data.session.participants :
          emitted[1].data.session.participants[i].status = "focusing"
    /\ sessions[emitted[1].data.session.id].status = "active"

\* C4: a start_session that fails changes neither active_sessions, user_sessions
\* nor session_timers, creates no countdown task (and no handler is left that
\* would create one), and emits only an error event to the caller
C4_StartFailureFrame ==
    [][\A sid \in AllSids :
        (~StartAllowed(sid) /\ StartSession(sid)) =>
            /\ UNCHANGED Registry
            /\ UNCHANGED inflight
            /\ Len(emitted') = 1
            /\ emitted'[1].type = "error"
            /\ emitted'[1].to = sid
            /\ emitted'[1].room = NoRoom]_vars

C4_SecondStartRefused ==
    /\ emitted # << >>
    /\ emitted[1].type = "error"
    /\ emitted[1].data.message = "Session cannot be started"

JoinErrorOnly(sid, error) ==
    /\ emitted' = SidEvent("join_error", sid, [error |-> error])
    /\ UNCHANGED Registry
    /\ UNCHANGED inflight

\* C5: a join_session against a room that already has max_participants
\* participants reports 'Session is full' to the joiner only and changes neither
\* the session nor user_sessions
C5_FullRefused ==
    [][\A sid \in AllSids : \A c \in ClientCodes :
        LET id == FindByRoomCode(Upper(c))
        IN (/\ id # NoSession
            /\ Len(sessions[id].participants) >= MaxParticipants
            /\ JoinSession(sid, c)) => JoinErrorOnly(sid, "Session is full")]_vars

C5_Full ==
    /\ emitted # << >>
    /\ emitted[1].type = "join_error"
    /\ emitted[1].data.error = "Session is full"
    /\ \E id \in active_sessions : Len(sessions[id].participants) = MaxParticipants

\* C6 as claimed: an unknown room code fails with 'Session not found' and a
\* session that is not waiting fails with 'Session already in progress',
\* nothing else changing
C6_AsClaimed ==
    [][\A sid \in AllSids : \A c \in ClientCodes :
        LET id == FindByRoomCode(Upper(c))
        IN JoinSession(sid, c) =>
            /\ id = NoSession => JoinErrorOnly(sid, "Session not found")
            /\ (id # NoSession /\ sessions[id].status # "waiting")
                    => JoinErrorOnly(sid, "Session already in progress")]_vars

\* C6 (amended): an unknown room code fails with 'Session not found', and a
\* session that is not waiting and has fewer than max_participants participants
\* fails with 'Session already in progress', nothing else changing
C6_NotFoundOrStarted ==
    [][\A sid \in AllSids : \A c \in ClientCodes :
        LET id == FindByRoomCode(Upper(c))
        IN JoinSession(sid, c) =>
            /\ id = NoSession => JoinErrorOnly(sid, "Session not found")
            /\ (/\ id # NoSession
                /\ sessions[id].status # "waiting"
                /\ Len(sessions[id].participants) < MaxParticipants)
                    => JoinErrorOnly(sid, "Session already in progress")]_vars

C6_RefusedInGrace ==
    /\ emitted # << >>
    /\ emitted[1].type = "join_error"
    /\ emitted[1].data.error = "Session already in progress"
    /\ \E id \in active_sessions : sessions[id].status = "completed"

\* C7: the creator of every session of the registry is one of its participants
C7_CreatorIsParticipant ==
    \A id \in active_sessions :
        sessions[id].created_by \in ParticipantIds(sessions[id])

\* C8: no handler ends with an unhandled exception, and once the disconnect
\* handler of a connection has finished the connection has no user_sessions entry
C8_NoFault ==
    /\ faults = {}
    /\ \A sid \in AllSids :
        (connected[sid] = "closed" /\ ~\E h \in inflight : h.sid = sid /\ h.op = "disconnect")
            => user_sessions[sid] = NoSession

\* C9: the disconnect of a creator that left other participants behind, resumed
\* after participant_left, makes the first remaining participant the creator
\* and emits creator_changed with that id to the room
C9_CreatorReassigned ==
    [][\A h \in inflight :
        (/\ h.op = "disconnect"
         /\ h.pc = "reassign"
         /\ sessions[h.session_id].created_by = h.sid
         /\ DisconnectResume(h)) =>
            /\ sessions'[h.session_id].participants # << >>
            /\ sessions'[h.session_id].created_by =
                    sessions'[h.session_id].participants[1].id
            /\ emitted' = RoomEvent("creator_changed",
                                    sessions[h.session_id].room_code, NoSid,
                                    [new_creator_id |->
                                        sessions'[h.session_id].created_by])]_vars

\* the connection is the last participant of its session
LastParticipant(sid) ==
    /\ user_sessions[sid] # NoSession
    /\ user_sessions[sid] \in active_sessions
    /\ ParticipantIds(sessions[user_sessions[sid]]) = {sid}

\* C10: the disconnect of the last participant of a session removes the
\* session from active_sessions in that step, leaves every countdown task of
\* the session cancelled or finished, deletes its session_timers entry and
\* emits nothing
C10_LastLeaves ==
    [][\A sid \in AllSids :
        (LastParticipant(sid) /\ Disconnect(sid)) =>
            LET id == user_sessions[sid]
            IN /\ id \notin active_sessions'
               /\ id \notin DOMAIN session_timers'
               /\ \A t \in TaskIds :
                    tasks[t].session_id = id => tasks'[t].pc \in Terminated
               /\ emitted' = << >>]_vars

C10_LeftInGrace ==
    \E t \in TaskIds :
        /\ tasks[t].pc = "cancelled"
        /\ tasks[t].session_id \notin active_sessions
        /\ sessions[tasks[t].session_id].status = "completed"
        /\ sessions[tasks[t].session_id].participants = << >>
        /\ DOMAIN session_timers = {}

\* C11: every session in the registry has at least one participant, in every
\* reachable state (the states in which handlers are suspended at a broadcast
\* included)
C11_ParticipantsNonEmpty ==
    \A id \in active_sessions : sessions[id].participants # << >>

\* a session was emptied, and removed, while the disconnect handler of a
\* participant that left before is still suspended at its broadcast
C11_EmptiedWhileSuspended ==
    \E h \in inflight :
        /\ h.op = "disconnect"
        /\ h.session_id \notin active_sessions
        /\ sessions[h.session_id].participants = << >>

\* C12: in every reachable state no session's participants list holds two
\* entries with the same id, also after a connection joins the room it is
\* already in
C12_UniqueParticipants ==
    \A id \in active_sessions :
        \A i, j \in DOMAIN sessions[id].participants :
            sessions[id].participants[i].id = sessions[id].participants[j].id
                => i = j

\* C13: in every reachable state every session has at most max_participants
\* participants, also when join_session handlers overlap
C13_AtMostMaxParticipants ==
    \A id \in SessionIds : Len(sessions[id].participants) <= MaxParticipants

\* a full room, filled while two join_session handlers were suspended at
\* their participant_joined broadcasts at the same time
C13_FullWithJoinsOverlapping ==
    \E id \in active_sessions :
        /\ Len(sessions[id].participants) = MaxParticipants
        /\ \E h1, h2 \in inflight :
              /\ h1 # h2
              /\ h1.op = "join_session" /\ h1.session_id = id
              /\ h2.op = "join_session" /\ h2.session_id = id

\* the countdown tasks ever created for a session
TasksOf(id) == {t \in TaskIds : tasks[t].session_id = id}

\* C14: over its whole lifetime a session has at most one countdown task, and
\* a task exists only for a session that a start_session has started, also
\* when start_session requests overlap at the session_started broadcast
C14_OneCountdownTask ==
    \A id \in SessionIds :
        /\ Cardinality(TasksOf(id)) <= 1
        /\ TasksOf(id) # {} => sessions[id].status \in {"active", "completed"}

\* a second start_session was refused while the first one is still suspended
\* at its session_started broadcast, before it has created the task
C14_OverlappingStartRefused ==
    \E h \in inflight :
        /\ h.op = "start_session"
        /\ TasksOf(h.session_id) = {}
        /\ emitted # << >>
        /\ emitted[1].type = "error"
        /\ emitted[1].to = h.sid
        /\ emitted[1].data.message = "Session cannot be started"

\* C15: once a session has been removed from the registry, no countdown task
\* for it is running or scheduled, and none is created afterwards, also when
\* the removal happens while start_session is suspended between setting the
\* status to active and creating the task
C15_NoTaskForRemovedSession ==
    \A t \in TaskIds :
        tasks[t].pc \notin Terminated => tasks[t].session_id \in active_sessions

\* C16: a room is sent session_completed at most once over the lifetime of
\* its session, and exactly once when the countdown has reached zero while
\* the session is in the registry (it has been sent, or the countdown task is
\* at the time_update broadcast from which it goes on to send it)
C16_CompletedOnce ==
    \A id \in SessionIds :
        /\ history[id].completed <= 1
        /\ (/\ id \in active_sessions
            /\ sessions[id].status # "waiting"
            /\ sessions[id].time_left_ms = 0)
           => \/ history[id].completed = 1
              \/ \E t \in TasksOf(id) : tasks[t].pc = "emit_update"

\* C17: with the clock never going back, no step increases the time_left_ms
\* of a session that is active, and no step changes the time_left_ms of a
\* session that is completed
C17_TimeLeftNonIncreasing ==
    [][\A id \in SessionIds :
        /\ sessions[id].status = "active"
              => sessions'[id].time_left_ms <= sessions[id].time_left_ms
        /\ sessions[id].status = "completed"
              => sessions'[id].time_left_ms = sessions[id].time_left_ms]_vars

\* C18: in every reachable state a session whose status is completed has
\* time_left_ms = 0, and no step changes the time_left_ms of a completed
\* session
C18_CompletedAtZero ==
    /\ [](\A id \in SessionIds :
            sessions[id].status = "completed" => sessions[id].time_left_ms = 0)
    /\ [][\A id \in SessionIds :
            sessions[id].status = "completed"
                => sessions'[id].time_left_ms = sessions[id].time_left_ms]_vars

\* a session completed by a tick that ran late, past the end of the session
C18_CompletedLate ==
    \E id \in SessionIds :
        /\ sessions[id].status = "completed"
        /\ sessions[id].session_duration > 0
        /\ history[id].elapsed > sessions[id].session_duration

\* C19: in every reachable state every session has
\* 0 <= time_left_ms <= session_duration, whatever session_duration the client
\* has supplied to create_session
C19_TimeLeftInRange ==
    \A id \in SessionIds :
        /\ 0 <= sessions[id].time_left_ms
        /\ sessions[id].time_left_ms <= sessions[id].session_duration

\* C20: every time_update sent to a session's room carries an elapsed value
\* greater than that of the time_update sent before it, and none is sent once
\* the room has been sent session_completed
C20_TimeUpdatesOrdered ==
    [][(emitted' # << >> /\ emitted'[1].type = "time_update") =>
        LET id == FindByRoomCode(emitted'[1].room)
        IN /\ id # NoSession
           /\ history[id].completed = 0
           /\ \/ history[id].elapsed = None
              \/ history[id].elapsed < emitted'[1].data.elapsed]_vars

\* a time_update that is not the first one of its session
C20_LaterTimeUpdate ==
    /\ emitted # << >>
    /\ emitted[1].type = "time_update"
    /\ emitted[1].data.elapsed >= TickInterval

\* C21: a time_update or session_completed broadcast that raises does not end
\* the countdown: no countdown task has ended on a failed broadcast while its
\* session is in the registry
C21_CountdownSurvivesFailure ==
    \A t \in TaskIds :
        tasks[t].pc = "failed" => tasks[t].session_id \notin active_sessions

\* C24: right after a sweep of cleanup_old_sessions no session whose
\* last_update is more than two hours old is left in active_sessions, whatever
\* its status, and every countdown task of a session the sweep removed is
\* cancelled (or had ended) and has no session_timers entry
C24_SweepEvicts ==
    [][reaper' # reaper =>
        /\ \A id \in active_sessions' :
              now - sessions'[id].last_update <= MaxAge
        /\ \A id \in active_sessions \ active_sessions' :
              /\ id \notin DOMAIN session_timers'
              /\ \A t \in TasksOf(id) : tasks'[t].pc \in Terminated]_vars

\* a sweep has removed an active session that still had participants, and has
\* cancelled its countdown task
C24_SweptWhileActive ==
    /\ reaper.pc = "sleep"
    /\ \E t \in TaskIds :
          /\ tasks[t].pc = "cancelled"
          /\ tasks[t].session_id \notin active_sessions
          /\ sessions[tasks[t].session_id].status = "active"
          /\ sessions[tasks[t].session_id].participants # << >>

\* what update_status may change of a session: the status of participants
\* with the caller's id, and last_update
SameButStatusOf(old, new, sid) ==
    /\ new.status = old.status
    /\ new.time_left_ms = old.time_left_ms
    /\ new.created_by = old.created_by
    /\ new.room_code = old.room_code
    /\ new.session_duration = old.session_duration
    /\ new.started_at = old.started_at
    /\ Len(new.participants) = Len(old.participants)
    /\ \A j \in DOMAIN old.participants :
          /\ new.participants[j].id = old.participants[j].id
          /\ old.participants[j].id # sid
                => new.participants[j].status = old.participants[j].status

\* C25: an update_status from a connection with no session, or whose session
\* has left the registry, changes no state and emits nothing; otherwise it
\* sets the caller's participant status and the session's last_update, changes
\* nothing else (other participants, the session's status, time_left_ms and
\* created_by, other sessions, the dicts, the tasks), and broadcasts
\* participant_status_updated to the room with the originator skipped
C25_UpdateStatusFrame ==
    [][\A sid \in AllSids, st \in ClientStatuses :
        UpdateStatus(sid, st) =>
            LET id == user_sessions[sid]
            IN /\ UNCHANGED <<now, connected, active_sessions, user_sessions,
                              session_timers, tasks, reaper, inflight, faults,
                              history>>
               /\ IF id = NoSession \/ id \notin active_sessions
                  THEN /\ UNCHANGED sessions
                       /\ emitted' = << >>
                  ELSE /\ \A k \in SessionIds \ {id} : sessions'[k] = sessions[k]
                       /\ SameButStatusOf(sessions[id], sessions'[id], sid)
                       /\ \E j \in DOMAIN sessions'[id].participants :
                             sessions'[id].participants[j] =
                                 [id |-> sid, status |-> st]
                       /\ sessions'[id].last_update = now
                       /\ emitted' = RoomEvent("participant_status_updated",
                                         sessions[id].room_code, sid,
                                         [participant_id |-> sid, status |-> st])]_vars

\* an update_status was broadcast in a room with two participants that now
\* have different statuses
C25_StatusUpdatedAmongTwo ==
    /\ emitted # << >>
    /\ emitted[1].type = "participant_status_updated"
    /\ \E id \in active_sessions :
          /\ sessions[id].room_code = emitted[1].room
          /\ Len(sessions[id].participants) = 2
          /\ sessions[id].participants[1].id # sessions[id].participants[2].id
          /\ sessions[id].participants[1].status # sessions[id].participants[2].status

\* the values of Participant.status (line 42)
ParticipantStatuses == {"ready", "focusing", "paused", "completed", "failed"}

\* C26: in every reachable state every participant's status is one of ready,
\* focusing, paused, completed, failed, whatever status payload (none and
\* unknown values included) clients send in update_status
C26_StatusInEnum ==
    \A id \in SessionIds :
        \A j \in DOMAIN sessions[id].participants :
            sessions[id].participants[j].status \in ParticipantStatuses

\* C27: a step in which the countdown task of one session fails, completes
\* its session or ends changes nothing of any other session: its state, its
\* place in the registry, its countdown tasks (which stay where they are, due
\* as before), its session_timers entry and what its room has been sent
C27_OtherSessionsUntouched ==
    [][\A t \in TaskIds :
        (/\ tasks'[t].pc # tasks[t].pc
         /\ tasks'[t].pc \in {"failed", "emit_completed", "done"}) =>
            \A k \in SessionIds \ {tasks[t].session_id} :
                /\ sessions'[k] = sessions[k]
                /\ history'[k] = history[k]
                /\ (k \in active_sessions') = (k \in active_sessions)
                /\ (k \in DOMAIN session_timers') = (k \in DOMAIN session_timers)
                /\ k \in DOMAIN session_timers
                      => session_timers'[k] = session_timers[k]
                /\ \A u \in TasksOf(k) : tasks'[u] = tasks[u]]_vars

\* two sessions in the registry: the countdown of one has failed, that of the
\* other has completed its session
C27_OneFailedOneCompleted ==
    \E t, u \in TaskIds :
        /\ tasks[t].session_id # tasks[u].session_id
        /\ {tasks[t].session_id, tasks[u].session_id} \subseteq active_sessions
        /\ tasks[t].pc = "failed"
        /\ tasks[u].pc = "emit_completed"

\* C29: started_at is None exactly while the session is waiting, and once it
\* is set (at the step that makes the session active) no step changes it
C29_StartedAtSetOnce ==
    /\ [](\A id \in SessionIds :
            (sessions[id].started_at = None) = (sessions[id].status = "waiting"))
    /\ [][\A id \in SessionIds :
            sessions[id].started_at # None
                => sessions'[id].started_at = sessions[id].started_at]_vars

\* a completed session, some time after its start, with its started_at
C29_StartedAtKept ==
    \E id \in SessionIds :
        /\ sessions[id].status = "completed"
        /\ sessions[id].started_at # None
        /\ sessions[id].started_at < now

\* C30: the step in which the countdown completes a session changes to
\* completed exactly the participants that are focusing, leaves every other
\* participant's status as it is, and the session_completed it sends carries
\* the participants with these final statuses
C30_CompletionFlipsFocusing ==
    [][\A id \in SessionIds :
        (sessions[id].status = "active" /\ sessions'[id].status = "completed") =>
            /\ Len(sessions'[id].participants) = Len(sessions[id].participants)
            /\ \A j \in DOMAIN sessions[id].participants :
                  /\ sessions'[id].participants[j].id = sessions[id].participants[j].id
                  /\ sessions'[id].participants[j].status =
                        IF sessions[id].participants[j].status = "focusing"
                        THEN "completed"
                        ELSE sessions[id].participants[j].status
            /\ emitted' # << >> =>
                  /\ emitted'[1].type = "session_completed"
                  /\ emitted'[1].data.session.status = "completed"
                  /\ emitted'[1].data.session.participants =
                        sessions'[id].participants]_vars

\* a session_completed whose snapshot has a completed participant and one that
\* was paused when the session completed
C30_CompletedWithPaused ==
    /\ emitted # << >>
    /\ emitted[1].type = "session_completed"
    /\ \E i, j \in DOMAIN emitted[1].data.session.participants :
          /\ emitted[1].data.session.participants[i].status = "completed"
          /\ emitted[1].data.session.participants[j].status = "paused"

\* the session of the scenario is over: its room was sent session_completed
\* once, it has left the registry and a lookup by its room code finds nothing
ScenarioOver(id) ==
    /\ id \in SessionIds
    /\ history[id].completed = 1
    /\ id \notin active_sessions
    /\ FindByRoomCode(sessions[id].room_code) = NoSession

\* C23: in the scenario create -> join by a second participant -> start, the
\* room is eventually sent session_completed, exactly once and with every
\* participant of its snapshot completed; the session is removed from the
\* registry, not before the grace period has elapsed since its completion,
\* and from then on a lookup by its room code finds no session
C23_Scenario ==
    /\ \A id \in 1..MaxSessions :
          (/\ id \in active_sessions
           /\ sessions[id].status = "active"
           /\ Len(sessions[id].participants) = 2) ~> [](ScenarioOver(id))
    /\ [](\A id \in SessionIds : history[id].completed <= 1)
    /\ [][(emitted' # << >> /\ emitted'[1].type = "session_completed") =>
            \A j \in DOMAIN emitted'[1].data.session.participants :
                emitted'[1].data.session.participants[j].status = "completed"]_vars
    /\ [][\A id \in active_sessions \ active_sessions' :
            /\ sessions[id].status = "completed"
            /\ now - sessions[id].last_update >= GracePeriod]_vars

\* the scenario has run to its end for a session of two
C23_ScenarioDone ==
    \E id \in SessionIds :
        /\ ScenarioOver(id)
        /\ Len(sessions[id].participants) = 2
        /\ \A j \in DOMAIN sessions[id].participants :
              sessions[id].participants[j].status = "completed"

\* C22: a session that was started eventually has status completed with
\* time_left_ms = 0, or is out of the registry, when the countdown task is
\* scheduled and the clock keeps advancing
C22_StartedCompletes ==
    \A id \in 1..MaxSessions :
        (id \in active_sessions /\ sessions[id].status = "active")
            ~> (\/ id \notin active_sessions
                \/ /\ sessions[id].status = "completed"
                   /\ sessions[id].time_left_ms = 0)

\* C28: a session that has status completed is eventually out of the
\* registry, when the tasks are scheduled and the clock keeps advancing,
\* whether or not the session_completed broadcast was sent
C28_CompletedRemoved ==
    \A id \in 1..MaxSessions :
        (id \in active_sessions /\ sessions[id].status = "completed")
            ~> (id \notin active_sessions)

\* C34: in every reachable state a connection id is a participant of at most
\* one session of the registry
C34_OneSessionPerConnection ==
    \A sid \in AllSids :
        Cardinality({id \in active_sessions :
                        sid \in ParticipantIds(sessions[id])}) <= 1

\* C35: in every reachable state every entry of user_sessions names a
\* session of the registry that lists the connection among its participants,
\* and every participant of a session of the registry is mapped to it
C35_MappingConsistent ==
    /\ \A sid \in AllSids :
          user_sessions[sid] # NoSession =>
              /\ user_sessions[sid] \in active_sessions
              /\ sid \in ParticipantIds(sessions[user_sessions[sid]])
    /\ \A id \in active_sessions :
          \A sid \in ParticipantIds(sessions[id]) : user_sessions[sid] = id

\* C37: in every reachable state every key of session_timers is the id of a
\* session of the registry
C37_TimersOfLiveSessions == DOMAIN session_timers \subseteq active_sessions

\* C36: a sweep of cleanup_old_sessions removes no session whose last_update
\* is at most two hours before the time of the sweep
C36_SweepKeepsFresh ==
    [][reaper' # reaper =>
        \A id \in active_sessions :
            now - sessions[id].last_update <= MaxAge => id \in active_sessions']_vars

\* a session with participants that was last updated before a sweep, at most
\* two hours before it, is in the registry after the sweep
C36_SurvivedSweep ==
    /\ reaper.pc = "sleep"
    /\ \E id \in active_sessions :
          /\ sessions[id].participants # << >>
          /\ sessions[id].last_update < reaper.wake - ReaperInterval
          /\ reaper.wake - ReaperInterval - sessions[id].last_update <= MaxAge

\* C32: the step of join_session that accepts the joiner appends it as the
\* last participant with status ready, maps its connection to the session,
\* sets last_update, changes nothing else of the registry, and emits
\* participant_joined to the room; the next emit of that handler is
\* session_joined to the joiner alone
C32_JoinSuccess ==
    [][/\ \A h \in inflight' \ inflight :
             h.op = "join_session" =>
                LET id == h.session_id
                    old == sessions[id]
                IN /\ sessions' = [sessions EXCEPT
                          ![id] = [old EXCEPT
                                      !.participants =
                                          Append(old.participants,
                                                 [id |-> h.sid, status |-> "ready"]),
                                      !.last_update = now]]
                   /\ user_sessions' = [user_sessions EXCEPT ![h.sid] = id]
                   /\ active_sessions' = active_sessions
                   /\ Len(emitted') = 1
                   /\ emitted'[1].type = "participant_joined"
                   /\ emitted'[1].room = old.room_code
                   /\ emitted'[1].to = NoSid
                   /\ emitted'[1].skip = NoSid
       /\ \A h \in inflight \ inflight' :
             h.op = "join_session" =>
                /\ Len(emitted') = 1
                /\ emitted'[1].type = "session_joined"
                /\ emitted'[1].to = h.sid
                /\ emitted'[1].room = NoRoom
                /\ UNCHANGED <<sessions, user_sessions, active_sessions>>]_vars

\* a third participant has joined behind the two before it and has been sent
\* session_joined
C32_ThirdJoined ==
    /\ emitted # << >>
    /\ emitted[1].type = "session_joined"
    /\ \E id \in active_sessions :
          /\ Len(sessions[id].participants) = 3
          /\ sessions[id].participants[3].id = emitted[1].to
          /\ sessions[id].participants[1].id # sessions[id].participants[2].id
          /\ sessions[id].participants[2].id # sessions[id].participants[3].id
          /\ user_sessions[emitted[1].to] = id

\* the step of disconnect(sid) up to its first emit
DisconnectStep(sid) == connected[sid] = "open" /\ connected'[sid] = "closed"

\* emitted' is one event of that type, sent to the room of the session
EmitsToRoom(type, id) ==
    /\ Len(emitted') = 1
    /\ emitted'[1].type = type
    /\ emitted'[1].room = sessions[id].room_code
    /\ emitted'[1].to = NoSid

\* C31: a disconnect of a connection mapped to a session emits nothing when
\* it removes the session and participant_left to the room when participants
\* remain; resumed after participant_left it emits creator_changed exactly
\* when the connection that left was the creator; a disconnect of a
\* connection mapped to no session changes no state and emits nothing
C31_DisconnectEmits ==
    [][/\ \A sid \in AllSids :
             DisconnectStep(sid) =>
                LET id == user_sessions[sid]
                IN /\ id = NoSession =>
                         /\ emitted' = << >>
                         /\ UNCHANGED <<sessions, active_sessions, user_sessions,
                                        session_timers, tasks, inflight>>
                   /\ id \in active_sessions \ active_sessions' => emitted' = << >>
                   /\ id \in active_sessions \cap active_sessions' =>
                         EmitsToRoom("participant_left", id)
       /\ \A h \in inflight \ inflight' :
             (h.op = "disconnect" /\ h.pc = "reassign") =>
                (EmitsToRoom("creator_changed", h.session_id)
                    <=> sessions[h.session_id].created_by = h.sid)]_vars

\* a handler or the countdown changes the session (the origin of the clock is
\* not moved in the same step)
Activity(id) ==
    /\ id \in SessionIds
    /\ now' = now
    /\ sessions'[id] # sessions[id]

\* C33: a session that from some point on receives no activity (no join,
\* status update, disconnect or countdown tick) is eventually out of the
\* registry for good, when the cleanup task is scheduled and the clock keeps
\* advancing
C33_IdleSessionEvicted ==
    \A id \in 1..MaxSessions :
        \/ []<><<Activity(id)>>_vars
        \/ <>[](id \notin active_sessions)

\* the cleanup task has removed a session whose countdown had ended in an
\* exception and whose participants never left
C33_SweptAfterFailure ==
    \E t \in TaskIds :
        /\ tasks[t].pc = "failed"
        /\ tasks[t].session_id \notin active_sessions
        /\ sessions[tasks[t].session_id].participants # << >>
====
